---- MODULE Spec2Model ----
(***************************************************************************)
(* Platform identification of uv-python (crates/uv-python/src/platform.rs):*)
(* parsing and formatting of Os, Arch, ArchVariant and Libc, the           *)
(* architecture preference order, the execution-compatibility predicate    *)
(* and libc detection.                                                     *)
(*                                                                         *)
(* A Rust string is a sequence of one-character strings, so that           *)
(* rsplit_once, starts_with, concatenation and byte-wise comparison are    *)
(* computed and not assumed.                                               *)
(***************************************************************************)
EXTENDS Integers, Sequences, FiniteSets, TLC

(* ------------------------------------------------------------------ *)
(* Bounds                                                             *)
(* ------------------------------------------------------------------ *)

\* How many suffixes ("_v2", "_v3", ...) are appended to a base token
\* to build an input string of Arch::from_str.
MaxSuffixes == 2

(* ------------------------------------------------------------------ *)
(* Strings                                                            *)
(* ------------------------------------------------------------------ *)

\* The characters of the canonical family names, in ASCII order.
Alphabet ==
  << "+", ".", "0", "1", "2", "3", "4", "5", "6", "7", "8", "9", "M", "_",
     "a", "b", "c", "d", "e", "f", "g", "h", "i", "k", "l", "m", "n", "o",
     "p", "r", "s", "t", "u", "v", "w", "x", "y", "z" >>

\* The rank of a character in byte order.
Ord(c) == CHOOSE i \in 1..Len(Alphabet) : Alphabet[i] = c

RECURSIVE StrCmpFrom(_, _, _)
StrCmpFrom(s, t, i) ==
  IF i > Len(s) /\ i > Len(t) THEN "Equal"
  ELSE IF i > Len(s) THEN "Less"
  ELSE IF i > Len(t) THEN "Greater"
  ELSE IF Ord(s[i]) < Ord(t[i]) THEN "Less"
  ELSE IF Ord(s[i]) > Ord(t[i]) THEN "Greater"
  ELSE StrCmpFrom(s, t, i + 1)

\* String::cmp: lexicographic comparison of the bytes.
StrCmp(s, t) == StrCmpFrom(s, t, 1)

\* str::starts_with
StartsWith(s, p) == Len(s) >= Len(p) /\ SubSeq(s, 1, Len(p)) = p

NoSplit == [found |-> FALSE]

\* Mutant of RSplitOnce: str::split_once('_'), which splits at the first '_'.
SplitOnceFirst(s) ==
  LET idx == {i \in 1..Len(s) : s[i] = "_"} IN
  IF idx = {} THEN NoSplit
  ELSE LET i == CHOOSE k \in idx : \A j \in idx : k <= j IN
       [found |-> TRUE, left |-> SubSeq(s, 1, i - 1),
        right |-> SubSeq(s, i + 1, Len(s))]

\* str::rsplit_once('_'): the parts before and after the last '_'.
RSplitOnce(s) ==
  LET idx == {i \in 1..Len(s) : s[i] = "_"} IN
  IF idx = {} THEN NoSplit
  ELSE LET i == CHOOSE k \in idx : \A j \in idx : j <= k IN
       [found |-> TRUE, left |-> SubSeq(s, 1, i - 1),
        right |-> SubSeq(s, i + 1, Len(s))]

(* ------------------------------------------------------------------ *)
(* Results and errors                                                 *)
(* ------------------------------------------------------------------ *)

Ok(v) == [ok |-> TRUE, val |-> v]
Err(kind, args) == [ok |-> FALSE, kind |-> kind, args |-> args]

\* Result equality, comparing payloads only of results of the same shape.
SameResult(r1, r2) ==
  /\ r1.ok = r2.ok
  /\ IF r1.ok THEN r1.val = r2.val
     ELSE r1.kind = r2.kind /\ r1.args = r2.args

(* ------------------------------------------------------------------ *)
(* ArchVariant                                                        *)
(* ------------------------------------------------------------------ *)

ArchVariants == {"V2", "V3", "V4"}
NoVariant == "None"

\* impl FromStr for ArchVariant (Err = ())
ArchVariantFromStr(s) ==
  IF s = <<"v","2">> THEN Ok("V2")
  ELSE IF s = <<"v","3">> THEN Ok("V3")
  ELSE IF s = <<"v","4">> THEN Ok("V4")
  ELSE Err("Unit", << >>)

\* impl Display for ArchVariant
ArchVariantDisplay(v) ==
  CASE v = "V2" -> <<"v","2">>
    [] v = "V3" -> <<"v","3">>
    [] v = "V4" -> <<"v","4">>

\* Option<ArchVariant>'s derived order: None < Some(V2) < Some(V3) < Some(V4).
VariantRank(v) ==
  CASE v = NoVariant -> 0
    [] v = "V2" -> 1
    [] v = "V3" -> 2
    [] v = "V4" -> 3

IntCmp(x, y) == IF x < y THEN "Less" ELSE IF x > y THEN "Greater" ELSE "Equal"

OptionVariantCmp(v, w) == IntCmp(VariantRank(v), VariantRank(w))

(* ------------------------------------------------------------------ *)
(* target_lexicon::Architecture                                       *)
(* ------------------------------------------------------------------ *)

\* The names Architecture::from_str accepts, each with the value it yields.
\* A value is named by its Display string; "arm64" is the crate's alias of
\* aarch64, and "unknown" yields the Unknown sentinel.
ArchitectureTable ==
  { <<<<"u","n","k","n","o","w","n">>, "unknown">>,
    <<<<"x","8","6","_","6","4">>, "x86_64">>,
    <<<<"x","8","6","_","6","4","h">>, "x86_64h">>,
    <<<<"a","a","r","c","h","6","4">>, "aarch64">>,
    <<<<"a","r","m","6","4">>, "aarch64">>,
    <<<<"a","a","r","c","h","6","4","_","b","e">>, "aarch64_be">>,
    <<<<"i","3","8","6">>, "i386">>,
    <<<<"i","5","8","6">>, "i586">>,
    <<<<"i","6","8","6">>, "i686">>,
    <<<<"a","r","m">>, "arm">>,
    <<<<"a","r","m","v","5","t","e">>, "armv5te">>,
    <<<<"a","r","m","v","6">>, "armv6">>,
    <<<<"a","r","m","v","7">>, "armv7">>,
    <<<<"r","i","s","c","v","6","4">>, "riscv64">>,
    <<<<"s","3","9","0","x">>, "s390x">>,
    <<<<"p","o","w","e","r","p","c">>, "powerpc">>,
    <<<<"p","o","w","e","r","p","c","6","4">>, "powerpc64">>,
    <<<<"p","o","w","e","r","p","c","6","4","l","e">>, "powerpc64le">>,
    <<<<"l","o","o","n","g","a","r","c","h","6","4">>, "loongarch64">>,
    <<<<"w","a","s","m","3","2">>, "wasm32">> }

Families == {e[2] : e \in ArchitectureTable}

\* Architecture::from_str (Err = ())
ArchitectureFromStr(s) ==
  IF \E e \in ArchitectureTable : e[1] = s
  THEN Ok((CHOOSE e \in ArchitectureTable : e[1] = s)[2])
  ELSE Err("Unit", << >>)

\* Architecture's Display: the canonical name of the family.
ArchitectureDisplay(f) ==
  CASE f = "unknown" -> <<"u","n","k","n","o","w","n">>
    [] f = "x86_64" -> <<"x","8","6","_","6","4">>
    [] f = "x86_64h" -> <<"x","8","6","_","6","4","h">>
    [] f = "aarch64" -> <<"a","a","r","c","h","6","4">>
    [] f = "aarch64_be" -> <<"a","a","r","c","h","6","4","_","b","e">>
    [] f = "i386" -> <<"i","3","8","6">>
    [] f = "i586" -> <<"i","5","8","6">>
    [] f = "i686" -> <<"i","6","8","6">>
    [] f = "arm" -> <<"a","r","m">>
    [] f = "armv5te" -> <<"a","r","m","v","5","t","e">>
    [] f = "armv6" -> <<"a","r","m","v","6">>
    [] f = "armv7" -> <<"a","r","m","v","7">>
    [] f = "riscv64" -> <<"r","i","s","c","v","6","4">>
    [] f = "s390x" -> <<"s","3","9","0","x">>
    [] f = "powerpc" -> <<"p","o","w","e","r","p","c">>
    [] f = "powerpc64" -> <<"p","o","w","e","r","p","c","6","4">>
    [] f = "powerpc64le" -> <<"p","o","w","e","r","p","c","6","4","l","e">>
    [] f = "loongarch64" -> <<"l","o","o","n","g","a","r","c","h","6","4">>
    [] f = "wasm32" -> <<"w","a","s","m","3","2">>

\* matches!(family, Architecture::Aarch64(_)): both Aarch64 sub-architectures.
IsAarch64(f) == f \in {"aarch64", "aarch64_be"}

(* ------------------------------------------------------------------ *)
(* Arch                                                               *)
(* ------------------------------------------------------------------ *)

MkArch(f, v) == [family |-> f, variant |-> v]

\* fn parse_family inside Arch::from_str
parse_family(s) ==
  IF s = <<"x","8","6">> THEN Ok("i686")
  ELSE LET r == ArchitectureFromStr(s) IN
       IF ~r.ok THEN Err("UnknownArch", <<s>>)
       ELSE IF r.val = "unknown" THEN Err("UnknownArch", <<s>>)
       ELSE r

\* Mutant of ArchFromStr: a failed split falls back to the prefix, not to
\* the whole input.
ArchFromStrFallbackOnPrefix(s) ==
  LET sp == RSplitOnce(s)
      pf == parse_family(sp.left)
      pv == ArchVariantFromStr(sp.right)
  IN
  IF sp.found /\ pf.ok /\ pv.ok
  THEN IF pf.val # "x86_64"
       THEN Err("UnsupportedVariant",
                <<ArchVariantDisplay(pv.val), ArchitectureDisplay(pf.val)>>)
       ELSE Ok(MkArch(pf.val, pv.val))
  ELSE LET family == parse_family(IF sp.found THEN sp.left ELSE s) IN
       IF ~family.ok THEN family
       ELSE Ok(MkArch(family.val, NoVariant))

\* Mutant of ArchFromStr: the variant is accepted for every family.
ArchFromStrAnyFamily(s) ==
  LET sp == RSplitOnce(s)
      pf == parse_family(sp.left)
      pv == ArchVariantFromStr(sp.right)
  IN
  IF sp.found /\ pf.ok /\ pv.ok
  THEN Ok(MkArch(pf.val, pv.val))
  ELSE LET family == parse_family(s) IN
       IF ~family.ok THEN family
       ELSE Ok(MkArch(family.val, NoVariant))

\* impl FromStr for Arch
ArchFromStr(s) ==
  LET sp == RSplitOnce(s)
      pf == parse_family(sp.left)
      pv == ArchVariantFromStr(sp.right)
  IN
  IF sp.found /\ pf.ok /\ pv.ok
  THEN IF pf.val # "x86_64"
       THEN Err("UnsupportedVariant",
                <<ArchVariantDisplay(pv.val), ArchitectureDisplay(pf.val)>>)
       ELSE Ok(MkArch(pf.val, pv.val))
  ELSE LET family == parse_family(s) IN
       IF ~family.ok THEN family
       ELSE Ok(MkArch(family.val, NoVariant))

\* impl Display for Arch
ArchDisplay(a) ==
  (IF a.family = "i686" THEN <<"x","8","6">> ELSE ArchitectureDisplay(a.family))
  \o (IF a.variant # NoVariant THEN <<"_">> \o ArchVariantDisplay(a.variant)
      ELSE << >>)

(* ------------------------------------------------------------------ *)
(* The host the program was built for and runs on                     *)
(* ------------------------------------------------------------------ *)

\* A host: os is std::env::consts::OS (cfg!(windows) is os = "windows",
\* cfg!(target_os = "macos") is os = "macos"), arch is
\* std::env::consts::ARCH (cfg!(target_arch = ..)), family is
\* target_lexicon::HOST.architecture and tlos is
\* target_lexicon::HOST.operating_system.
\* std names every 32-bit ARM target "arm"; the hosts named "armv5te" and
\* "armv7" are there because Libc::from_env matches on those names too.
MkHost(os, arch, family, tlos) ==
  [os |-> os, arch |-> arch, family |-> family, tlos |-> tlos]

Hosts ==
  { MkHost("linux", "x86_64", "x86_64", "linux"),
    MkHost("linux", "aarch64", "aarch64", "linux"),
    MkHost("linux", "x86", "i686", "linux"),
    MkHost("linux", "arm", "armv7", "linux"),
    MkHost("linux", "arm", "armv6", "linux"),
    MkHost("linux", "armv7", "armv7", "linux"),
    MkHost("linux", "armv5te", "armv5te", "linux"),
    MkHost("linux", "riscv64", "riscv64", "linux"),
    MkHost("windows", "x86_64", "x86_64", "windows"),
    MkHost("windows", "aarch64", "aarch64", "windows"),
    MkHost("macos", "x86_64", "x86_64", "darwin"),
    MkHost("macos", "aarch64", "aarch64", "darwin"),
    MkHost("freebsd", "x86_64", "x86_64", "freebsd") }

\* Arch::from_env
ArchFromEnv(h) == MkArch(h.family, NoVariant)

\* Mutant of Preferred: the native architecture on every host.
PreferredNativeOnly(h) == ArchFromEnv(h)

\* The preferred architecture of Arch::cmp.
Preferred(h) ==
  IF h.os = "windows" /\ h.arch = "aarch64"
  THEN MkArch("x86_64", NoVariant)
  ELSE ArchFromEnv(h)

\* Mutant of ArchCmp: the arm for (false, true) yields Less.
ArchCmpOtherPreferredLess(h, self, other) ==
  IF self.family = other.family
  THEN OptionVariantCmp(self.variant, other.variant)
  ELSE LET preferred == Preferred(h)
           s == self.family = preferred.family
           o == other.family = preferred.family
       IN CASE s /\ o -> "panic"
            [] s /\ ~o -> "Less"
            [] ~s /\ o -> "Less"
            [] ~s /\ ~o -> StrCmp(ArchitectureDisplay(self.family),
                                  ArchitectureDisplay(other.family))

\* impl Ord for Arch: cmp. "panic" is unreachable!().
ArchCmp(h, self, other) ==
  IF self.family = other.family
  THEN OptionVariantCmp(self.variant, other.variant)
  ELSE LET preferred == Preferred(h)
           s == self.family = preferred.family
           o == other.family = preferred.family
       IN CASE s /\ o -> "panic"
            [] s /\ ~o -> "Less"
            [] ~s /\ o -> "Greater"
            [] ~s /\ ~o -> StrCmp(ArchitectureDisplay(self.family),
                                  ArchitectureDisplay(other.family))

\* impl PartialOrd for Arch: partial_cmp is Some(cmp).
ArchPartialCmp(h, self, other) == ArchCmp(h, self, other)

\* Mutant of ArchSupports: the emulation rule on every host OS.
ArchSupportsAnyHost(h, self, other) ==
  IF self = other THEN TRUE
  ELSE IF IsAarch64(self.family)
  THEN other.family = "x86_64"
  ELSE FALSE

\* Arch::supports
ArchSupports(h, self, other) ==
  IF self = other THEN TRUE
  ELSE IF (h.os = "windows" \/ h.os = "macos") /\ IsAarch64(self.family)
  THEN other.family = "x86_64"
  ELSE FALSE

\* impl From<&uv_platform_tags::Arch> for Arch
PlatformTagArchs ==
  { "Aarch64", "Armv5TEL", "Armv6L", "Armv7L", "S390X", "Powerpc",
    "Powerpc64", "Powerpc64Le", "X86", "X86_64", "LoongArch64", "Riscv64",
    "Wasm32" }

ArchFromPlatformTag(t) ==
  CASE t = "Aarch64" -> MkArch("aarch64", NoVariant)
    [] t = "Armv5TEL" -> MkArch("armv5te", NoVariant)
    [] t = "Armv6L" -> MkArch("armv6", NoVariant)
    [] t = "Armv7L" -> MkArch("armv7", NoVariant)
    [] t = "S390X" -> MkArch("s390x", NoVariant)
    [] t = "Powerpc" -> MkArch("powerpc", NoVariant)
    [] t = "Powerpc64" -> MkArch("powerpc64", NoVariant)
    [] t = "Powerpc64Le" -> MkArch("powerpc64le", NoVariant)
    [] t = "X86" -> MkArch("i686", NoVariant)
    [] t = "X86_64" -> MkArch("x86_64", NoVariant)
    [] t = "LoongArch64" -> MkArch("loongarch64", NoVariant)
    [] t = "Riscv64" -> MkArch("riscv64", NoVariant)
    [] t = "Wasm32" -> MkArch("wasm32", NoVariant)

(* ------------------------------------------------------------------ *)
(* Libc                                                               *)
(* ------------------------------------------------------------------ *)

LibcSome(env) == [some |-> TRUE, env |-> env]
LibcNone == [some |-> FALSE]

\* impl FromStr for Libc
LibcFromStr(s) ==
  IF s = <<"g","n","u">> THEN Ok(LibcSome("Gnu"))
  ELSE IF s = <<"g","n","u","e","a","b","i">> THEN Ok(LibcSome("Gnueabi"))
  ELSE IF s = <<"g","n","u","e","a","b","i","h","f">> THEN Ok(LibcSome("Gnueabihf"))
  ELSE IF s = <<"m","u","s","l">> THEN Ok(LibcSome("Musl"))
  ELSE IF s = <<"n","o","n","e">> THEN Ok(LibcNone)
  ELSE Err("UnknownLibc", <<s>>)

\* target_lexicon::Environment's Display
EnvironmentDisplay(env) ==
  CASE env = "Gnu" -> <<"g","n","u">>
    [] env = "Gnueabi" -> <<"g","n","u","e","a","b","i">>
    [] env = "Gnueabihf" -> <<"g","n","u","e","a","b","i","h","f">>
    [] env = "Musl" -> <<"m","u","s","l">>

\* impl Display for Libc
LibcDisplay(l) == IF l.some THEN EnvironmentDisplay(l.env) ELSE <<"n","o","n","e">>

\* std::env::var(UV_LIBC): the variable is unset, holds bytes that are not
\* Unicode, or holds a string.
EnvUnset == [state |-> "unset"]
EnvNotUnicode == [state |-> "notunicode"]
EnvSet(s) == [state |-> "set", val |-> s]

\* What the collaborators would answer if asked.
LibcProbeOutcomes == {"Manylinux", "Musllinux", "Err"}
FloatProbeOutcomes == {"true", "false", "Err"}

\* Mutant of LibcFromEnv: the libc probe runs before the override is read.
LibcFromEnvProbeFirst(h, uv_libc, lp, fp) ==
  IF h.os = "linux"
  THEN IF lp = "Err"
       THEN [res |-> Err("LibcDetectionError", << >>), probed |-> {"libc"},
             readenv |-> FALSE]
       ELSE IF uv_libc.state = "set" /\ uv_libc.val # << >>
       THEN [res |-> LibcFromStr(uv_libc.val), probed |-> {"libc"},
             readenv |-> TRUE]
       ELSE IF lp = "Manylinux"
       THEN IF h.arch \in {"arm", "armv5te", "armv7"}
            THEN [res |-> Ok(LibcSome(CASE fp = "true" -> "Gnueabihf"
                                        [] fp = "false" -> "Gnueabi"
                                        [] fp = "Err" -> "Gnu")),
                  probed |-> {"libc", "float"}, readenv |-> TRUE]
            ELSE [res |-> Ok(LibcSome("Gnu")), probed |-> {"libc"},
                  readenv |-> TRUE]
       ELSE [res |-> Ok(LibcSome("Musl")), probed |-> {"libc"},
             readenv |-> TRUE]
  ELSE [res |-> Ok(LibcNone), probed |-> {}, readenv |-> FALSE]

\* Mutant of LibcFromEnv: a failure of the float probe is propagated.
LibcFromEnvFloatErrPropagates(h, uv_libc, lp, fp) ==
  IF h.os = "linux"
  THEN IF uv_libc.state = "set" /\ uv_libc.val # << >>
       THEN [res |-> LibcFromStr(uv_libc.val), probed |-> {}, readenv |-> TRUE]
       ELSE IF lp = "Err"
       THEN [res |-> Err("LibcDetectionError", << >>), probed |-> {"libc"},
             readenv |-> TRUE]
       ELSE IF lp = "Manylinux"
       THEN IF h.arch \in {"arm", "armv5te", "armv7"}
            THEN [res |-> IF fp = "Err" THEN Err("LibcDetectionError", << >>)
                          ELSE Ok(LibcSome(CASE fp = "true" -> "Gnueabihf"
                                             [] fp = "false" -> "Gnueabi")),
                  probed |-> {"libc", "float"}, readenv |-> TRUE]
            ELSE [res |-> Ok(LibcSome("Gnu")), probed |-> {"libc"},
                  readenv |-> TRUE]
       ELSE [res |-> Ok(LibcSome("Musl")), probed |-> {"libc"},
             readenv |-> TRUE]
  ELSE [res |-> Ok(LibcNone), probed |-> {}, readenv |-> FALSE]

\* Mutant of LibcFromEnv: the override is read on every host OS.
LibcFromEnvOverrideAnyOs(h, uv_libc, lp, fp) ==
  IF uv_libc.state = "set" /\ uv_libc.val # << >>
  THEN [res |-> LibcFromStr(uv_libc.val), probed |-> {}, readenv |-> TRUE]
  ELSE IF h.os = "linux"
  THEN IF lp = "Err"
       THEN [res |-> Err("LibcDetectionError", << >>), probed |-> {"libc"},
             readenv |-> TRUE]
       ELSE IF lp = "Manylinux"
       THEN IF h.arch \in {"arm", "armv5te", "armv7"}
            THEN [res |-> Ok(LibcSome(CASE fp = "true" -> "Gnueabihf"
                                        [] fp = "false" -> "Gnueabi"
                                        [] fp = "Err" -> "Gnu")),
                  probed |-> {"libc", "float"}, readenv |-> TRUE]
            ELSE [res |-> Ok(LibcSome("Gnu")), probed |-> {"libc"},
                  readenv |-> TRUE]
       ELSE [res |-> Ok(LibcSome("Musl")), probed |-> {"libc"},
             readenv |-> TRUE]
  ELSE [res |-> Ok(LibcNone), probed |-> {}, readenv |-> TRUE]

\* Libc::from_env, on host h with UV_LIBC = uv_libc, detect_linux_libc
\* answering lp and detect_hardware_floating_point_support answering fp.
\* res is the result; probed is the set of probes it invoked and readenv
\* whether it read the variable.
LibcFromEnv(h, uv_libc, lp, fp) ==
  IF h.os = "linux"
  THEN IF uv_libc.state = "set" /\ uv_libc.val # << >>
       THEN [res |-> LibcFromStr(uv_libc.val), probed |-> {}, readenv |-> TRUE]
       ELSE IF lp = "Err"
       THEN [res |-> Err("LibcDetectionError", << >>), probed |-> {"libc"},
             readenv |-> TRUE]
       ELSE IF lp = "Manylinux"
       THEN IF h.arch \in {"arm", "armv5te", "armv7"}
            THEN [res |-> Ok(LibcSome(CASE fp = "true" -> "Gnueabihf"
                                        [] fp = "false" -> "Gnueabi"
                                        [] fp = "Err" -> "Gnu")),
                  probed |-> {"libc", "float"}, readenv |-> TRUE]
            ELSE [res |-> Ok(LibcSome("Gnu")), probed |-> {"libc"},
                  readenv |-> TRUE]
       ELSE [res |-> Ok(LibcSome("Musl")), probed |-> {"libc"},
             readenv |-> TRUE]
  ELSE [res |-> Ok(LibcNone), probed |-> {}, readenv |-> FALSE]

\* impl From<&uv_platform_tags::Os> for Libc
PlatformTagOss ==
  { "Manylinux", "Musllinux", "Android", "Windows", "Macos", "FreeBsd",
    "NetBsd", "OpenBsd", "Dragonfly", "Illumos", "Haiku", "Pyodide" }

LibcFromPlatformTag(t) ==
  CASE t = "Manylinux" -> LibcSome("Gnu")
    [] t = "Musllinux" -> LibcSome("Musl")
    [] OTHER -> LibcNone

(* ------------------------------------------------------------------ *)
(* target_lexicon::OperatingSystem                                    *)
(* ------------------------------------------------------------------ *)

\* Option<DeploymentTarget>: None, or Some of <<major, minor, patch>>.
NoTarget == << >>

MkOs(kind, dt) == [kind |-> kind, dt |-> dt]

Digits == <<"0", "1", "2", "3", "4", "5", "6", "7", "8", "9">>
IsDigit(c) == \E i \in 1..10 : Digits[i] = c
DigitVal(c) == (CHOOSE i \in 1..10 : Digits[i] = c) - 1

RECURSIVE DigitsVal(_)
DigitsVal(s) ==
  IF s = << >> THEN 0
  ELSE 10 * DigitsVal(SubSeq(s, 1, Len(s) - 1)) + DigitVal(s[Len(s)])

\* str::parse of an unsigned integer of the given maximum: an optional '+',
\* then one or more digits, no overflow. -1 stands for Err.
ParseUint(s, max) ==
  LET d == IF s # << >> /\ s[1] = "+" THEN Tail(s) ELSE s IN
  IF d = << >> \/ \E i \in 1..Len(d) : ~IsDigit(d[i]) THEN -1
  ELSE IF DigitsVal(d) > max THEN -1
  ELSE DigitsVal(d)

RECURSIVE UintDisplay(_)
\* Display of an unsigned integer.
UintDisplay(n) ==
  IF n < 10 THEN <<Digits[n + 1]>>
  ELSE UintDisplay(n \div 10) \o <<Digits[(n % 10) + 1]>>

RECURSIVE SplitDot(_)
\* str::split('.')
SplitDot(s) ==
  LET idx == {i \in 1..Len(s) : s[i] = "."} IN
  IF idx = {} THEN <<s>>
  ELSE LET i == CHOOSE k \in idx : \A j \in idx : k <= j IN
       <<SubSeq(s, 1, i - 1)>> \o SplitDot(SubSeq(s, i + 1, Len(s)))

\* The closure parse_darwin of OperatingSystem::from_str, applied to what
\* follows the OS name: nothing, or major.minor.patch (a u16 and two u8).
ParseDeploymentTarget(rest) ==
  IF rest = << >> THEN Ok(NoTarget)
  ELSE LET parts == SplitDot(rest) IN
       IF Len(parts) # 3 THEN Err("Unit", << >>)
       ELSE LET major == ParseUint(parts[1], 65535)
                minor == ParseUint(parts[2], 255)
                patch == ParseUint(parts[3], 255)
            IN IF major < 0 \/ minor < 0 \/ patch < 0 THEN Err("Unit", << >>)
               ELSE Ok(<<major, minor, patch>>)

\* The names that carry an optional deployment target.
VersionedOsNames ==
  << <<<<"d","a","r","w","i","n">>, "darwin">>, <<<<"m","a","c","o","s","x">>, "macosx">>, <<<<"i","o","s">>, "ios">> >>

\* The other names OperatingSystem::from_str accepts.
OperatingSystemTable ==
  { <<<<"u","n","k","n","o","w","n">>, "unknown">>,
    <<<<"l","i","n","u","x">>, "linux">>,
    <<<<"w","i","n","d","o","w","s">>, "windows">>,
    <<<<"f","r","e","e","b","s","d">>, "freebsd">>,
    <<<<"n","e","t","b","s","d">>, "netbsd">>,
    <<<<"o","p","e","n","b","s","d">>, "openbsd">>,
    <<<<"d","r","a","g","o","n","f","l","y">>, "dragonfly">>,
    <<<<"i","l","l","u","m","o","s">>, "illumos">>,
    <<<<"h","a","i","k","u">>, "haiku">>,
    <<<<"e","m","s","c","r","i","p","t","e","n">>, "emscripten">>,
    <<<<"n","o","n","e">>, "none">> }

\* OperatingSystem::from_str (Err = ())
OperatingSystemFromStr(s) ==
  IF \E i \in 1..Len(VersionedOsNames) : StartsWith(s, VersionedOsNames[i][1])
  THEN LET i == CHOOSE k \in 1..Len(VersionedOsNames) :
                  /\ StartsWith(s, VersionedOsNames[k][1])
                  /\ \A j \in 1..(k - 1) : ~StartsWith(s, VersionedOsNames[j][1])
           name == VersionedOsNames[i][1]
           dt == ParseDeploymentTarget(SubSeq(s, Len(name) + 1, Len(s)))
       IN IF dt.ok THEN Ok(MkOs(VersionedOsNames[i][2], dt.val)) ELSE dt
  ELSE IF \E e \in OperatingSystemTable : e[1] = s
  THEN Ok(MkOs((CHOOSE e \in OperatingSystemTable : e[1] = s)[2], NoTarget))
  ELSE Err("Unit", << >>)

OsKindName(kind) ==
  CASE kind = "unknown" -> <<"u","n","k","n","o","w","n">>
    [] kind = "darwin" -> <<"d","a","r","w","i","n">>
    [] kind = "macosx" -> <<"m","a","c","o","s","x">>
    [] kind = "ios" -> <<"i","o","s">>
    [] kind = "linux" -> <<"l","i","n","u","x">>
    [] kind = "windows" -> <<"w","i","n","d","o","w","s">>
    [] kind = "freebsd" -> <<"f","r","e","e","b","s","d">>
    [] kind = "netbsd" -> <<"n","e","t","b","s","d">>
    [] kind = "openbsd" -> <<"o","p","e","n","b","s","d">>
    [] kind = "dragonfly" -> <<"d","r","a","g","o","n","f","l","y">>
    [] kind = "illumos" -> <<"i","l","l","u","m","o","s">>
    [] kind = "haiku" -> <<"h","a","i","k","u">>
    [] kind = "emscripten" -> <<"e","m","s","c","r","i","p","t","e","n">>
    [] kind = "none" -> <<"n","o","n","e">>

\* OperatingSystem's Display: the name, followed by the deployment target
\* when there is one.
OperatingSystemDisplay(o) ==
  OsKindName(o.kind)
  \o (IF o.dt = NoTarget THEN << >>
      ELSE UintDisplay(o.dt[1]) \o <<".">> \o UintDisplay(o.dt[2]) \o <<".">>
           \o UintDisplay(o.dt[3]))

(* ------------------------------------------------------------------ *)
(* Os                                                                 *)
(* ------------------------------------------------------------------ *)

\* impl FromStr for Os
OsFromStr(s) ==
  IF s = <<"m","a","c","o","s">> THEN Ok(MkOs("darwin", NoTarget))
  ELSE LET r == OperatingSystemFromStr(s) IN
       IF ~r.ok THEN Err("UnknownOs", <<s>>)
       ELSE IF r.val.kind = "unknown" THEN Err("UnknownOs", <<s>>)
       ELSE r

\* impl Display for Os
OsDisplay(o) ==
  IF o.kind = "darwin" THEN <<"m","a","c","o","s">> ELSE OperatingSystemDisplay(o)

\* Os::from_env
OsFromEnv(h) == MkOs(h.tlos, NoTarget)

\* impl From<&uv_platform_tags::Os> for Os
OsFromPlatformTag(t) ==
  CASE t = "Dragonfly" -> MkOs("dragonfly", NoTarget)
    [] t = "FreeBsd" -> MkOs("freebsd", NoTarget)
    [] t = "Haiku" -> MkOs("haiku", NoTarget)
    [] t = "Illumos" -> MkOs("illumos", NoTarget)
    [] t = "Macos" -> MkOs("darwin", NoTarget)
    [] t \in {"Manylinux", "Musllinux", "Android"} -> MkOs("linux", NoTarget)
    [] t = "NetBsd" -> MkOs("netbsd", NoTarget)
    [] t = "OpenBsd" -> MkOs("openbsd", NoTarget)
    [] t = "Windows" -> MkOs("windows", NoTarget)
    [] t = "Pyodide" -> MkOs("emscripten", NoTarget)

(* ------------------------------------------------------------------ *)
(* Inputs                                                             *)
(* ------------------------------------------------------------------ *)

ArchBaseTokens ==
  {e[1] : e \in ArchitectureTable}
  \cup {<<"x","8","6">>, <<"a","m","d","6","4">>, <<"v","3">>, <<"_">>, << >>}

ArchSuffixes == {<<"_","v","2">>, <<"_","v","3">>, <<"_","v","4">>, <<"_","v","9">>}

RECURSIVE WithSuffixes(_, _)
\* The tokens of base followed by at most n suffixes.
WithSuffixes(base, n) ==
  IF n = 0 THEN base
  ELSE LET prev == WithSuffixes(base, n - 1) IN
       prev \cup {p \o x : p \in prev, x \in ArchSuffixes}

ArchInputs == WithSuffixes(ArchBaseTokens, MaxSuffixes)

ArchVariantInputs == {<<"v","2">>, <<"v","3">>, <<"v","4">>, <<"v","1">>, <<"v","9">>, <<"2">>, << >>}

OsInputs ==
  {e[1] : e \in OperatingSystemTable}
  \cup {<<"m","a","c","o","s">>, <<"d","a","r","w","i","n">>, <<"m","a","c","o","s","x">>, <<"i","o","s">>, <<"d","a","r","w","i","n","2","0",".","1",".","0">>,
        <<"d","a","r","w","i","n","0","2","0",".","1",".","0">>, <<"m","a","c","o","s","x","1","0",".","7",".","0">>, <<"m","a","c","o","s","x","+","1","0",".","0","7",".","0">>, <<"i","o","s","1","3",".","0",".","0">>,
        <<"d","a","r","w","i","n","2","0">>, <<"d","a","r","w","i","n","2","0",".","1">>, <<"d","a","r","w","i","n","2","0",".","1",".","0",".","5">>, <<"d","a","r","w","i","n","2","0",".","1",".","x">>,
        <<"m","a","c","o","s","x","1","0",".","7",".","2","5","6">>, <<"d","a","r","w","i","n",".">>}
  \cup {<<"M","a","c","o","s">>, <<"o","s","x">>, <<"m","a","c">>, << >>}

LibcInputs ==
  {<<"g","n","u">>, <<"g","n","u","e","a","b","i">>, <<"g","n","u","e","a","b","i","h","f">>, <<"m","u","s","l">>, <<"n","o","n","e">>, <<"g","l","i","b","c">>, <<"M","u","s","l">>,
   <<"g","n","u","_">>, << >>}

\* The values UV_LIBC can have in the process environment.
UvLibcValues ==
  {EnvUnset, EnvNotUnicode}
  \cup {EnvSet(s) : s \in {<< >>, <<"m","u","s","l">>, <<"n","o","n","e">>, <<"g","n","u","e","a","b","i","h","f">>, <<"g","l","i","b","c">>}}

Types == {"Arch", "ArchVariant", "Os", "Libc"}

Inputs(ty) ==
  CASE ty = "Arch" -> ArchInputs
    [] ty = "ArchVariant" -> ArchVariantInputs
    [] ty = "Os" -> OsInputs
    [] ty = "Libc" -> LibcInputs

\* <T as FromStr>::from_str
FromStr(ty, s) ==
  CASE ty = "Arch" -> ArchFromStr(s)
    [] ty = "ArchVariant" -> ArchVariantFromStr(s)
    [] ty = "Os" -> OsFromStr(s)
    [] ty = "Libc" -> LibcFromStr(s)

\* <T as Display>::to_string
Display(ty, v) ==
  CASE ty = "Arch" -> ArchDisplay(v)
    [] ty = "ArchVariant" -> ArchVariantDisplay(v)
    [] ty = "Os" -> OsDisplay(v)
    [] ty = "Libc" -> LibcDisplay(v)

\* The Arch values the program can hold: parsed from a string, taken from
\* the host or converted from a platform tag.
ParsedArchs == {r.val : r \in {x \in {ArchFromStr(s) : s \in ArchInputs} : x.ok}}
ArchValues ==
  ParsedArchs \cup {ArchFromEnv(h) : h \in Hosts}
  \cup {ArchFromPlatformTag(t) : t \in PlatformTagArchs}

(* ------------------------------------------------------------------ *)
(* The state machine: a caller that invokes one operation at a time   *)
(* ------------------------------------------------------------------ *)

VARIABLES
  host,     \* the host the program runs on
  uv_libc,  \* the value of UV_LIBC in the process environment
  last      \* the operation invoked last, with its arguments and result

vars == <<host, uv_libc, last>>

None == [has |-> FALSE]
Some(v) == [has |-> TRUE, val |-> v]

\* op: the operation; ty: the type it belongs to; arg: its argument;
\* res: its result; src: for a parse of a formatted value, the value that
\* was formatted; origin: for a formatted value, the operation that produced
\* it; aux: what else the operation did.
Call(op, ty, arg, res, src, origin, aux) ==
  [op |-> op, ty |-> ty, arg |-> arg, res |-> res, src |-> src,
   origin |-> origin, aux |-> aux]

Idle == Call("idle", "", << >>, << >>, None, "", << >>)

Init ==
  /\ host \in Hosts
  /\ uv_libc \in UvLibcValues
  /\ last = Idle

\* T::from_str(s) on a string of the caller.
Parse ==
  /\ last.op = "idle"
  /\ \E ty \in Types : \E s \in Inputs(ty) :
       last' = Call("from_str", ty, s, FromStr(ty, s), None, "", << >>)
  /\ UNCHANGED <<host, uv_libc>>

\* Arch::from_env() and Os::from_env()
FromEnv ==
  /\ last.op = "idle"
  /\ \/ last' = Call("from_env", "Arch", << >>, Ok(ArchFromEnv(host)), None,
                     "", << >>)
     \/ last' = Call("from_env", "Os", << >>, Ok(OsFromEnv(host)), None,
                     "", << >>)
  /\ UNCHANGED <<host, uv_libc>>

\* Libc::from_env(), the collaborators answering lp and fp if asked.
DetectLibc ==
  /\ last.op = "idle"
  /\ \E lp \in LibcProbeOutcomes : \E fp \in FloatProbeOutcomes :
       LET r == LibcFromEnv(host, uv_libc, lp, fp) IN
       last' = Call("from_env", "Libc", <<lp, fp>>, r.res, None, "",
                    [probed |-> r.probed, readenv |-> r.readenv])
  /\ UNCHANGED <<host, uv_libc>>

\* Arch::from, Os::from and Libc::from of a platform tag.
FromPlatformTag ==
  /\ last.op = "idle"
  /\ \/ \E t \in PlatformTagArchs :
          last' = Call("from_tag", "Arch", t, Ok(ArchFromPlatformTag(t)),
                       None, "", << >>)
     \/ \E t \in PlatformTagOss :
          last' = Call("from_tag", "Os", t, Ok(OsFromPlatformTag(t)), None,
                       "", << >>)
     \/ \E t \in PlatformTagOss :
          last' = Call("from_tag", "Libc", t, Ok(LibcFromPlatformTag(t)),
                       None, "", << >>)
  /\ UNCHANGED <<host, uv_libc>>

\* to_string() of the value the last operation produced.
Format ==
  /\ last.op \in {"from_str", "from_env", "from_tag"}
  /\ last.res.ok
  /\ last' = Call("fmt", last.ty, last.res.val,
                  Ok(Display(last.ty, last.res.val)), None, last.op, << >>)
  /\ UNCHANGED <<host, uv_libc>>

\* T::from_str of the string the last operation formatted.
Reparse ==
  /\ last.op = "fmt"
  /\ last' = Call("from_str", last.ty, last.res.val,
                  FromStr(last.ty, last.res.val), Some(last.arg),
                  last.origin, << >>)
  /\ UNCHANGED <<host, uv_libc>>

\* a.cmp(&b)
Compare ==
  /\ last.op = "idle"
  /\ \E a \in ArchValues : \E b \in ArchValues :
       last' = Call("cmp", "Arch", <<a, b>>, ArchPartialCmp(host, a, b),
                    None, "", << >>)
  /\ UNCHANGED <<host, uv_libc>>

\* a.supports(b)
Supports ==
  /\ last.op = "idle"
  /\ \E a \in ArchValues : \E b \in ArchValues :
       last' = Call("supports", "Arch", <<a, b>>, ArchSupports(host, a, b),
                    None, "", << >>)
  /\ UNCHANGED <<host, uv_libc>>

\* The caller is done with the result.
Return ==
  /\ last.op # "idle"
  /\ last' = Idle
  /\ UNCHANGED <<host, uv_libc>>

Next ==
  \/ Parse
  \/ FromEnv
  \/ DetectLibc
  \/ FromPlatformTag
  \/ Format
  \/ Reparse
  \/ Compare
  \/ Supports
  \/ Return

Spec == Init /\ [][Next]_vars

(* ------------------------------------------------------------------ *)
(* Claims                                                             *)
(* ------------------------------------------------------------------ *)

\* The last operation was Arch::from_str.
ArchParsed == last.op = "from_str" /\ last.ty = "Arch"

\* The last operation was Libc::from_env.
LibcDetected == last.op = "from_env" /\ last.ty = "Libc"

\* C1: for each of the four types and every token its parser accepts,
\* formatting the parsed value and parsing the formatted string again
\* succeeds and yields the value of the first parse.
C1_RoundTrip ==
  (last.op = "from_str" /\ last.src.has /\ last.origin = "from_str")
    => (last.res.ok /\ last.res.val = last.src.val)

\* C1, for every token but the Darwin names that carry a deployment target
\* (such as "darwin20.1.0"): the round trip yields the first parse.
C1_RoundTripWithoutDarwinTarget ==
  (/\ last.op = "from_str" /\ last.src.has /\ last.origin = "from_str"
   /\ ~(last.ty = "Os" /\ last.src.val.kind = "darwin"
        /\ last.src.val.dt # NoTarget))
    => (last.res.ok /\ last.res.val = last.src.val)

\* A Darwin value with a deployment target was formatted and parsed again.
C1_DarwinTargetReparsed ==
  /\ last.op = "from_str" /\ last.src.has /\ last.origin = "from_str"
  /\ last.ty = "Os" /\ last.src.val.kind = "darwin"
  /\ last.src.val.dt # NoTarget

Reverse(r) ==
  CASE r = "Less" -> "Greater"
    [] r = "Greater" -> "Less"
    [] OTHER -> r

\* C2: on a fixed host Arch::cmp is a total order: Equal exactly for equal
\* values, cmp(b, a) the reverse of cmp(a, b), and Less transitive, also
\* across same-family and different-family pairs.
C2_TotalOrder ==
  (last.op = "cmp") =>
    LET a == last.arg[1]
        b == last.arg[2]
        r == last.res
    IN /\ r \in {"Less", "Equal", "Greater"}
       /\ (r = "Equal") <=> (a.family = b.family /\ a.variant = b.variant)
       /\ ArchCmp(host, b, a) = Reverse(r)
       /\ \A c \in ArchValues :
            (r = "Less" /\ ArchCmp(host, b, c) = "Less")
              => ArchCmp(host, a, c) = "Less"

\* a < b by preferred family and b < c by variant, so that transitivity
\* crosses the two kinds of pairs.
C2_Witness ==
  /\ last.op = "cmp"
  /\ last.res = "Less"
  /\ last.arg[1].family # last.arg[2].family
  /\ \E c \in ArchValues :
       /\ c.family = last.arg[2].family
       /\ ArchCmp(host, last.arg[2], c) = "Less"

\* The preferred family of the claim: the host's native family, except on
\* a Windows aarch64 host, where it is x86_64.
C3_P(h) == IF h.os = "windows" /\ h.arch = "aarch64" THEN "x86_64" ELSE h.family

C3_VariantOrder == <<"None", "V2", "V3", "V4">>
C3_VariantIndex(v) == CHOOSE i \in 1..4 : C3_VariantOrder[i] = v

C3_Reference(h, a, b) ==
  IF a.family = b.family
  THEN IntCmp(C3_VariantIndex(a.variant), C3_VariantIndex(b.variant))
  ELSE IF a.family = C3_P(h) THEN "Less"
  ELSE IF b.family = C3_P(h) THEN "Greater"
  ELSE StrCmp(ArchitectureDisplay(a.family), ArchitectureDisplay(b.family))

\* C3: Arch::cmp equals the reference: variants compared within a family,
\* otherwise the preferred family first, otherwise the family names
\* compared; with x86_64 preferred, x86_64 sorts before aarch64 whatever
\* the variants.
C3_CmpReference ==
  (last.op = "cmp") =>
    LET a == last.arg[1]
        b == last.arg[2]
    IN /\ last.res = C3_Reference(host, a, b)
       /\ (C3_P(host) = "x86_64" /\ a.family = "x86_64"
           /\ b.family = "aarch64") => last.res = "Less"

\* On a Windows aarch64 host, x86_64_v3 was compared with aarch64.
C3_Witness ==
  /\ last.op = "cmp"
  /\ host.os = "windows" /\ host.arch = "aarch64"
  /\ last.arg[1] = MkArch("x86_64", "V3")
  /\ last.arg[2] = MkArch("aarch64", NoVariant)
  /\ last.res = "Less"

C5_KnownFamily(s) ==
  s = <<"x","8","6">> \/ \E e \in ArchitectureTable : e[1] = s /\ e[2] # "unknown"
C5_FamilyOf(s) ==
  IF s = <<"x","8","6">> THEN "i686"
  ELSE (CHOOSE e \in ArchitectureTable : e[1] = s)[2]

C5_VariantSuffixes == {<<"v","2">>, <<"v","3">>, <<"v","4">>}
C5_VariantOf(s) ==
  CASE s = <<"v","2">> -> "V2"
    [] s = <<"v","3">> -> "V3"
    [] s = <<"v","4">> -> "V4"

\* The input has the form F_V: V is v2, v3 or v4 and F, the part before
\* the last underscore, names a family.
C5_Prefix(s) == SubSeq(s, 1, Len(s) - 3)
C5_Suffix(s) == SubSeq(s, Len(s) - 1, Len(s))
C5_FamilyVariantForm(s) ==
  /\ Len(s) >= 3
  /\ s[Len(s) - 2] = "_"
  /\ C5_Suffix(s) \in C5_VariantSuffixes
  /\ C5_KnownFamily(C5_Prefix(s))

\* C5: on an input F_V, Arch::from_str yields {family, Some(V)} when the
\* family is x86_64, and for every other family, also the one of the alias
\* "x86", fails with UnsupportedVariant(V's name, the family's canonical
\* name); it does not parse the whole string as a family.
C5_VariantBranch ==
  (ArchParsed /\ C5_FamilyVariantForm(last.arg)) =>
    LET f == C5_FamilyOf(C5_Prefix(last.arg))
        v == C5_Suffix(last.arg)
    IN /\ IF f = "x86_64"
          THEN last.res = Ok(MkArch("x86_64", C5_VariantOf(v)))
          ELSE last.res
                 = Err("UnsupportedVariant", <<v, ArchitectureDisplay(f)>>)
       /\ last.arg = <<"a","a","r","c","h","6","4","_","v","3">>
            => last.res = Err("UnsupportedVariant", <<<<"v","3">>, <<"a","a","r","c","h","6","4">>>>)
       /\ last.arg = <<"x","8","6","_","v","2">>
            => last.res = Err("UnsupportedVariant", <<<<"v","2">>, <<"i","6","8","6">>>>)

\* "x86_v3" was parsed and refused.
C5_Witness ==
  /\ ArchParsed
  /\ last.arg = <<"x","8","6","_","v","3">>
  /\ ~last.res.ok
  /\ last.res.kind = "UnsupportedVariant"

\* C6: when the prefix names no family or the suffix is no variant (or
\* there is no underscore), Arch::from_str is the parse of the whole input
\* as a family with variant None, and fails with UnknownArch(whole input).
C6_Fallback ==
  (ArchParsed /\ ~C5_FamilyVariantForm(last.arg)) =>
    /\ IF C5_KnownFamily(last.arg)
       THEN last.res = Ok(MkArch(C5_FamilyOf(last.arg), NoVariant))
       ELSE last.res = Err("UnknownArch", <<last.arg>>)
    /\ last.arg = <<"x","8","6","_","6","4","_","v","9">>
         => last.res = Err("UnknownArch", <<<<"x","8","6","_","6","4","_","v","9">>>>)
    /\ last.arg = <<"x","8","6","_","6","4">> => last.res = Ok(MkArch("x86_64", NoVariant))

\* "x86_64_v9" was parsed: the prefix is a family, the suffix no variant.
C6_Witness ==
  /\ ArchParsed
  /\ last.arg = <<"x","8","6","_","6","4","_","v","9">>
  /\ C5_KnownFamily(<<"x","8","6","_","6","4">>)
  /\ ~last.res.ok
  /\ last.res.kind = "UnknownArch"

\* UV_LIBC holds a non-empty string.
OverrideSet == uv_libc.state = "set" /\ uv_libc.val # << >>

\* UV_LIBC is unset or empty.
OverrideAbsent ==
  uv_libc.state = "unset" \/ (uv_libc.state = "set" /\ uv_libc.val = << >>)

\* C7: on Linux with UV_LIBC a non-empty string S, Libc::from_env is
\* Libc::from_str(S) whatever the probes would answer, and invokes no probe;
\* with UV_LIBC unset or empty the result comes from probing.
C7_Override ==
  (LibcDetected /\ host.os = "linux") =>
    /\ OverrideSet =>
         /\ SameResult(last.res, LibcFromStr(uv_libc.val))
         /\ last.aux.probed = {}
         /\ uv_libc.val = <<"m","u","s","l">> => last.res = Ok(LibcSome("Musl"))
         /\ uv_libc.val = <<"n","o","n","e">> => last.res = Ok(LibcNone)
         /\ uv_libc.val = <<"g","l","i","b","c">>
              => last.res = Err("UnknownLibc", <<<<"g","l","i","b","c">>>>)
    /\ OverrideAbsent =>
         /\ "libc" \in last.aux.probed
         /\ last.arg[1] = "Err" => ~last.res.ok
         /\ last.arg[1] = "Musllinux" => last.res = Ok(LibcSome("Musl"))
         /\ last.arg[1] = "Manylinux" =>
              (last.res.ok /\ last.res.val.some
               /\ last.res.val.env \in {"Gnu", "Gnueabi", "Gnueabihf"})

\* UV_LIBC = "musl" on a Linux host whose libc probe would answer glibc.
C7_Witness ==
  /\ LibcDetected
  /\ host.os = "linux"
  /\ uv_libc = EnvSet(<<"m","u","s","l">>)
  /\ last.arg[1] = "Manylinux"
  /\ last.res = Ok(LibcSome("Musl"))

\* C8: on Linux without an effective override: a failed libc probe is the
\* error LibcDetectionError and the float probe is not invoked; musl gives
\* Some(musl); glibc on arm, armv5te or armv7 gives gnueabihf, gnueabi or,
\* when the float probe fails, gnu; glibc elsewhere gives gnu. Never None.
C8_Detection ==
  (LibcDetected /\ host.os = "linux" /\ ~OverrideSet) =>
    LET lp == last.arg[1]
        fp == last.arg[2]
        arm == host.arch \in {"arm", "armv5te", "armv7"}
    IN /\ lp = "Err" =>
            /\ last.res = Err("LibcDetectionError", << >>)
            /\ "float" \notin last.aux.probed
       /\ lp = "Musllinux" => last.res = Ok(LibcSome("Musl"))
       /\ (lp = "Manylinux" /\ arm /\ fp = "true")
            => last.res = Ok(LibcSome("Gnueabihf"))
       /\ (lp = "Manylinux" /\ arm /\ fp = "false")
            => last.res = Ok(LibcSome("Gnueabi"))
       /\ (lp = "Manylinux" /\ arm /\ fp = "Err")
            => last.res = Ok(LibcSome("Gnu"))
       /\ (lp = "Manylinux" /\ ~arm) => last.res = Ok(LibcSome("Gnu"))
       /\ last.res.ok => last.res.val.some

\* On a 32-bit ARM glibc host the float probe failed and gnu was selected.
C8_Witness ==
  /\ LibcDetected
  /\ host.os = "linux" /\ host.arch = "armv7"
  /\ uv_libc = EnvUnset
  /\ last.arg = <<"Manylinux", "Err">>
  /\ last.aux.probed = {"libc", "float"}
  /\ last.res = Ok(LibcSome("Gnu"))

\* C9: on a host that is not Linux, Libc::from_env is Ok(None) for every
\* value of UV_LIBC and every answer of the probes, and consults neither.
C9_NonLinux ==
  (LibcDetected /\ host.os # "linux") =>
    /\ last.res = Ok(LibcNone)
    /\ last.aux.probed = {}
    /\ ~last.aux.readenv

\* On a host that is not Linux, Windows or macOS, with an invalid UV_LIBC
\* and a libc probe that would fail.
C9_Witness ==
  /\ LibcDetected
  /\ host.os = "freebsd"
  /\ uv_libc = EnvSet(<<"g","l","i","b","c">>)
  /\ last.arg[1] = "Err"
  /\ last.res = Ok(LibcNone)

\* C10: every Arch produced by Arch::from_str, Arch::from_env or the
\* conversion from a platform tag has a variant only with family x86_64;
\* from_env and the conversion produce no variant at all.
C10_VariantInvariant ==
  (last.ty = "Arch" /\ last.op \in {"from_str", "from_env", "from_tag"}
   /\ last.res.ok) =>
    /\ last.res.val.variant # NoVariant => last.res.val.family = "x86_64"
    /\ last.op \in {"from_env", "from_tag"}
         => last.res.val.variant = NoVariant

\* A string with a variant suffix was parsed into a value with a variant.
C10_Witness ==
  /\ ArchParsed
  /\ ~last.src.has
  /\ last.res.ok
  /\ last.res.val = MkArch("x86_64", "V4")

====
